---- MODULE Spec2Model ----
(***************************************************************************)
(* ecr-cleaner (src/main.go): one sequential run of main over the          *)
(* repositories of a container registry.  The registry (the ECR client) is *)
(* the environment: it holds the images, serves DescribeRepositories and   *)
(* DescribeImages (paginated) and executes BatchDeleteImage; each of its   *)
(* calls either succeeds or returns an error.                              *)
(***************************************************************************)
EXTENDS Integers, Sequences, FiniteSets, TLC

(***************************************************************************)
(* Bounds of the model and the one numeric constant of the program.        *)
(***************************************************************************)
\* images held by the registry over all repositories (small registries)
MaxImages == 3
\* largest value of the -keep flag
MaxKeep == 2
\* images the registry returns per DescribeImages page
PageSize == 2
\* cleanupImages: the chunk size of the delete loop, main.go:110-118
ChunkSize == 100

\* sizes of the large single-repository registries (around the chunk size)
BulkSizes == {100, 101, 200}

(***************************************************************************)
(* Strings the program inspects character by character (strings.ToLower,   *)
(* strings.Contains) are sequences of one-character strings.               *)
(***************************************************************************)
sDelete == <<"d", "e", "l", "e", "t", "e">>
sSave == <<"s", "a", "v", "e">>
sSaveCapital == <<"S", "a", "v", "e">>
sPurge == <<"p", "u", "r", "g", "e">>
sEmpty == <<>>
sDeleteSave == sDelete \o sSave

\* unicode.ToLower on the letters that occur in the flag values drawn below
LowerChar(c) ==
  CASE c = "S" -> "s"
    [] c = "D" -> "d"
    [] OTHER -> c

RECURSIVE ToLower(_)
\* strings.ToLower
ToLower(s) ==
  IF s = <<>> THEN <<>> ELSE <<LowerChar(Head(s))>> \o ToLower(Tail(s))

\* strings.Contains(s, substr): substr occurs in s as a contiguous run
Contains(s, substr) ==
  \E k \in 0..(Len(s) - Len(substr)) : SubSeq(s, k + 1, k + Len(substr)) = substr

(***************************************************************************)
(* Regular expressions: the patterns drawn, with regexp.Compile and         *)
(* regexp.MatchString tabulated for them and the tags "dev" and "v1".      *)
(***************************************************************************)
Patterns == {"", "^v", "("}

\* regexp.Compile(tagRE) returns no error
Compile(tagRE) == tagRE # "("

\* regexp.MatchString(tagRE, tag)
MatchString(tagRE, tag) ==
  CASE tagRE = "" -> TRUE
    [] tagRE = "^v" -> tag = "v1"
    [] OTHER -> FALSE

(***************************************************************************)
(* Images: ecr.ImageDetail with its digest, tag list and push time         *)
(* (a time.Time: seconds and nanoseconds).                                 *)
(***************************************************************************)
Time(s, n) == [sec |-> s, nsec |-> n]

Kinds ==
  { [ImageTags |-> <<>>, ImagePushedAt |-> Time(1, 0)],
    [ImageTags |-> <<"dev">>, ImagePushedAt |-> Time(1, 500000000)],
    [ImageTags |-> <<"dev", "v1">>, ImagePushedAt |-> Time(1, 0)],
    [ImageTags |-> <<"dev", "v1">>, ImagePushedAt |-> Time(2, 0)] }

Image(d, kind) ==
  [ImageDigest |-> d, ImageTags |-> kind.ImageTags, ImagePushedAt |-> kind.ImagePushedAt]

\* time.Time.Unix(): the whole seconds of a time, the nanoseconds dropped
Unix(t) == t.sec

\* time.Time order at full precision (not used by the program)
TimeLE(a, b) == a.sec < b.sec \/ (a.sec = b.sec /\ a.nsec <= b.nsec)

RepoNames == <<"r1", "r2">>
RepoSet == {RepoNames[k] : k \in 1..Len(RepoNames)}

Digests(images) == [k \in 1..Len(images) |-> images[k].ImageDigest]
DigestSet(images) == {images[k].ImageDigest : k \in 1..Len(images)}
Elems(s) == {s[k] : k \in 1..Len(s)}

\* the nil *string of DescribeImagesInput.NextToken
NilToken == 0 - 1

VARIABLES
  flags,          \* the parsed command line
  registry,       \* repository name -> images the registry holds, in listing order
  pc,             \* where main stands
  tagFilter,      \* main's TagFiltering value
  repos,          \* main's repos
  ri,             \* index in repos of the iteration of main's loop
  token,          \* getImages: token (offset of the next page, or NilToken)
  imageIDs,       \* getImages: imageIDs
  repoName,       \* cleanupImages: repoName of the latest call
  images,         \* cleanupImages: images of the latest call
  locals,         \* cleanupImages: the lists it computes
  deleteImageIDs, \* cleanupImages: deleteImageIDs
  i,              \* cleanupImages: i
  ret,            \* result of the latest cleanupImages call
  nCalls,         \* registry calls issued so far
  deleteCalls,    \* BatchDeleteImage calls issued so far, in order
  failed          \* a registry call has returned an error

vars ==
  <<flags, registry, pc, tagFilter, repos, ri, token, imageIDs, repoName, images,
    locals, deleteImageIDs, i, ret, nCalls, deleteCalls, failed>>

(***************************************************************************)
(* The pure functions of main.go.                                          *)
(***************************************************************************)
RECURSIVE SeparateLoop(_, _, _, _)
\* separateHavingTag: the loop over images from index k on
SeparateLoop(imgs, k, imagesWithoutTag, imagesWithTag) ==
  IF k > Len(imgs)
    THEN [imagesWithoutTag |-> imagesWithoutTag, imagesWithTag |-> imagesWithTag]
    ELSE IF Len(imgs[k].ImageTags) = 0
           THEN SeparateLoop(imgs, k + 1, Append(imagesWithoutTag, imgs[k]), imagesWithTag)
           ELSE SeparateLoop(imgs, k + 1, imagesWithoutTag, Append(imagesWithTag, imgs[k]))

separateHavingTag(imgs) == SeparateLoop(imgs, 1, <<>>, <<>>)

\* variant of TagLoop that looks at one tag only
TagLoopFirstOnly(tags, tagRE, j) == j <= Len(tags) /\ MatchString(tagRE, tags[j])

RECURSIVE TagLoop(_, _, _)
\* filterTags: the inner loop over the tags of one image from index j on;
\* TRUE when it reaches a matching tag (append and break)
TagLoop(tags, tagRE, j) ==
  IF j > Len(tags)
    THEN FALSE
    ELSE IF MatchString(tagRE, tags[j]) THEN TRUE ELSE TagLoop(tags, tagRE, j + 1)

RECURSIVE FilterLoop(_, _, _, _, _)
\* filterTags: the outer loop over images from index k on.  The digests are
\* compared as the pointers they are; the images of one listing carry
\* pairwise distinct digests, each in its own string.
FilterLoop(imgs, tagRE, k, imagesWithRETags, imgsWoRETags) ==
  IF k > Len(imgs)
    THEN [imagesWithRETags |-> imagesWithRETags, imgsWoRETags |-> imgsWoRETags]
    ELSE LET image == imgs[k]
             with == IF TagLoop(image.ImageTags, tagRE, 1)
                       THEN Append(imagesWithRETags, image)
                       ELSE imagesWithRETags
             wo == IF Len(with) = 0 \/ with[Len(with)].ImageDigest # image.ImageDigest
                     THEN Append(imgsWoRETags, image)
                     ELSE imgsWoRETags
         IN  FilterLoop(imgs, tagRE, k + 1, with, wo)

filterTags(imgs, tagRE) ==
  IF tagRE = ""
    THEN [imagesWithRETags |-> imgs, imgsWoRETags |-> <<>>]
    ELSE FilterLoop(imgs, tagRE, 1, <<>>, <<>>)

\* variant of PostFilter with the two branches exchanged
PostFilterSwapped(action, imagesWithRETag, imagesWoRETag) ==
  IF Contains(action, sDelete) THEN imagesWoRETag ELSE imagesWithRETag

\* cleanupImages: the list the post-filter action keeps as imagesWithTag
PostFilter(action, imagesWithRETag, imagesWoRETag) ==
  IF Contains(action, sDelete) THEN imagesWithRETag ELSE imagesWoRETag

\* byTime.Less
Less(p, a, b) == Unix(p[a].ImagePushedAt) < Unix(p[b].ImagePushedAt)

Perms(n) == {f \in [1..n -> 1..n] : \A a, b \in 1..n : f[a] = f[b] => a = b}

\* variant of SortByTime that leaves the list as it is
SortNone(p) == {p}

\* sort.Sort(byTime(p)): the results its contract allows, every permutation
\* of p in which no element is Less than an earlier one (sort.Sort is not
\* stable: elements that are not Less than each other come in any order)
SortByTime(p) ==
  { q \in { [k \in 1..Len(p) |-> p[f[k]]] : f \in Perms(Len(p)) } :
      \A a, b \in 1..Len(p) : a < b => ~Less(q, b, a) }

imagesToRemove(imgs, amountToKeep) ==
  IF Len(imgs) < amountToKeep THEN <<>> ELSE SubSeq(imgs, 1, Len(imgs) - amountToKeep)

\* variant of BuildPlan with the appends in the other order
BuildPlanTaggedFirst(imagesNoTag, imagesWithTagToRemove) ==
  imagesWithTagToRemove \o imagesNoTag

\* cleanupImages: deleteImageIDs after its two appends
BuildPlan(imagesNoTag, imagesWithTagToRemove) == imagesNoTag \o imagesWithTagToRemove

\* variant of SkipDelete without the dry-run return
SkipDeleteNoDryRun(dryRun, plan) == Len(plan) <= 0

\* cleanupImages: the returns before the delete loop (dry run, nothing to do)
SkipDelete(dryRun, plan) == dryRun \/ Len(plan) <= 0

\* cleanupImages: the loop condition i < len(deleteImageIDs)/100
InLoop(plan, k) == k < Len(plan) \div ChunkSize

\* variant of Chunk whose slices all start at the head of the plan
ChunkFromStart(plan, k) ==
  IF InLoop(plan, k)
    THEN SubSeq(plan, 1, (k + 1) * ChunkSize)
    ELSE SubSeq(plan, 1, Len(plan))

\* cleanupImages: the slice handed to deleteImages, in the loop and after it
Chunk(plan, k) ==
  IF InLoop(plan, k)
    THEN SubSeq(plan, k * ChunkSize + 1, (k + 1) * ChunkSize)
    ELSE SubSeq(plan, k * ChunkSize + 1, Len(plan))

\* buildImageIdentifier
buildImageIdentifier(imgs) == Digests(imgs)

(***************************************************************************)
(* Initial states: the command line and the registry's content.            *)
(***************************************************************************)
FlagSets ==
  [ keep : 0..MaxKeep,
    repo : {"", "r1"},
    dryRun : BOOLEAN,
    tagRE : Patterns,
    postFilter : {sDelete, sSaveCapital, sEmpty, sPurge} ]

\* main: both checks of the command line pass
ValidFlags(f) == Compile(f.tagRE) /\ Contains(sDeleteSave, ToLower(f.postFilter))

\* n images of the kinds ks, digests 1..n, the first cut of them in r1
SmallRegistry(n, ks, cut) ==
  [ r \in RepoSet |->
      IF r = "r1"
        THEN [k \in 1..cut |-> Image(k, ks[k])]
        ELSE [k \in 1..(n - cut) |-> Image(cut + k, ks[cut + k])] ]

\* m untagged images in r1
BulkRegistry(m) ==
  [ r \in RepoSet |->
      IF r = "r1"
        THEN [k \in 1..m |-> Image(k, [ImageTags |-> <<>>, ImagePushedAt |-> Time(1, 0)])]
        ELSE <<>> ]

EmptyLocals ==
  [ imagesNoTag |-> <<>>, tagged |-> <<>>, imagesWithRETag |-> <<>>, imagesWoRETag |-> <<>>,
    candidates |-> <<>>, imagesWithTag |-> <<>>, imagesWithTagToRemove |-> <<>> ]

Init ==
  /\ flags \in FlagSets
  /\ \/ \E n \in 0..MaxImages : \E ks \in [1..n -> Kinds] : \E cut \in 0..n :
          /\ registry = SmallRegistry(n, ks, cut)
          /\ ValidFlags(flags) \/ n = 0
          /\ flags.repo = "" \/ cut = n
     \/ \E m \in BulkSizes :
          /\ registry = BulkRegistry(m)
          /\ ValidFlags(flags) /\ flags.repo = "r1" /\ flags.keep = 0
          /\ flags.tagRE = "" /\ flags.postFilter = sDelete
  /\ pc = "start"
  /\ tagFilter = [regExp |-> "", action |-> <<>>]
  /\ repos = <<>>
  /\ ri = 0
  /\ token = NilToken
  /\ imageIDs = <<>>
  /\ repoName = ""
  /\ images = <<>>
  /\ locals = EmptyLocals
  /\ deleteImageIDs = <<>>
  /\ i = 0
  /\ ret = "none"
  /\ nCalls = 0
  /\ deleteCalls = <<>>
  /\ failed = FALSE

(***************************************************************************)
(* main                                                                    *)
(***************************************************************************)
\* log.Fatal, log.Fatalf: the process exits
Fatal == "fatal"

\* main: the head of the loop over repos, entered with index k
LoopHead(rs, k) ==
  IF k <= Len(rs)
    THEN /\ pc' = "fetch"
         /\ ri' = k
         /\ token' = NilToken
         /\ imageIDs' = <<>>
    ELSE /\ pc' = "done"
         /\ ri' = k
         /\ UNCHANGED <<token, imageIDs>>

\* variant of Abort that goes on with the next repository
AbortContinue == LoopHead(repos, ri + 1)

\* main, lines 52-54, 61-63, 67-69: an error of a registry call ends the run
Abort ==
  /\ pc' = Fatal
  /\ UNCHANGED <<ri, token, imageIDs>>

\* main, lines 35-50: the command line is checked, then repos is set or listed
Start ==
  /\ pc = "start"
  /\ IF ~Compile(flags.tagRE)
       THEN /\ pc' = Fatal
            /\ UNCHANGED <<tagFilter, repos, ri, token, imageIDs>>
       ELSE LET action == ToLower(flags.postFilter) IN
            /\ tagFilter' = [regExp |-> flags.tagRE, action |-> action]
            /\ IF ~Contains(sDeleteSave, action)
                 THEN /\ pc' = Fatal
                      /\ UNCHANGED <<repos, ri, token, imageIDs>>
                 ELSE IF flags.repo = ""
                        THEN /\ pc' = "listRepos"
                             /\ UNCHANGED <<repos, ri, token, imageIDs>>
                        ELSE /\ repos' = <<flags.repo>>
                             /\ LoopHead(repos', 1)
  /\ UNCHANGED <<flags, registry, repoName, images, locals, deleteImageIDs, i, ret,
                 nCalls, deleteCalls, failed>>

\* main, lines 51-54, with getAllRepoNames
GetAllRepoNames ==
  /\ pc = "listRepos"
  /\ nCalls' = nCalls + 1
  /\ \/ /\ repos' = RepoNames
        /\ LoopHead(repos', 1)
        /\ UNCHANGED failed
     \/ /\ failed' = TRUE
        /\ Abort
        /\ UNCHANGED repos
  /\ UNCHANGED <<flags, registry, tagFilter, repoName, images, locals, deleteImageIDs,
                 i, ret, deleteCalls>>

\* the registry's answer to DescribeImages: the page at offset off
Page(listing, off) ==
  SubSeq(listing, off + 1, IF off + PageSize < Len(listing) THEN off + PageSize ELSE Len(listing))
NextToken(listing, off) == IF off + PageSize < Len(listing) THEN off + PageSize ELSE NilToken

\* getImages: one DescribeImages call of its loop; after the last page main
\* calls cleanupImages (lines 60-66)
GetImages ==
  /\ pc = "fetch"
  /\ nCalls' = nCalls + 1
  /\ \/ LET listing == registry[repos[ri]]
            off == IF token = NilToken THEN 0 ELSE token
        IN  /\ imageIDs' = imageIDs \o Page(listing, off)
            /\ token' = NextToken(listing, off)
            /\ pc' = IF token' = NilToken THEN "cleanup" ELSE "fetch"
            /\ UNCHANGED <<failed, ri>>
     \/ /\ failed' = TRUE
        /\ Abort
  /\ UNCHANGED <<flags, registry, tagFilter, repos, repoName, images, locals,
                 deleteImageIDs, i, ret, deleteCalls>>

(***************************************************************************)
(* cleanupImages                                                           *)
(***************************************************************************)
\* cleanupImages returns nil: main goes to the next repository
ReturnNil ==
  /\ ret' = "nil"
  /\ LoopHead(repos, ri + 1)

\* cleanupImages, lines 74-107: the plan, and the returns before the loop
CleanupImages ==
  /\ pc = "cleanup"
  /\ repoName' = repos[ri]
  /\ images' = imageIDs
  /\ LET sep == separateHavingTag(images')
         flt == filterTags(sep.imagesWithTag, tagFilter.regExp)
         cand == PostFilter(tagFilter.action, flt.imagesWithRETags, flt.imgsWoRETags)
     IN  \E sorted \in SortByTime(cand) :
           LET toRemove == imagesToRemove(sorted, flags.keep) IN
           /\ locals' = [ imagesNoTag |-> sep.imagesWithoutTag,
                          tagged |-> sep.imagesWithTag,
                          imagesWithRETag |-> flt.imagesWithRETags,
                          imagesWoRETag |-> flt.imgsWoRETags,
                          candidates |-> cand,
                          imagesWithTag |-> sorted,
                          imagesWithTagToRemove |-> toRemove ]
           /\ deleteImageIDs' = BuildPlan(sep.imagesWithoutTag, toRemove)
  /\ i' = 0
  /\ IF SkipDelete(flags.dryRun, deleteImageIDs')
       THEN ReturnNil
       ELSE /\ pc' = "delete"
            /\ ret' = "running"
            /\ UNCHANGED <<ri, token, imageIDs>>
  /\ UNCHANGED <<flags, registry, tagFilter, repos, nCalls, deleteCalls, failed>>

\* the registry after a successful BatchDeleteImage of ids in repository r
Delete(reg, r, ids) ==
  [reg EXCEPT ![r] = SelectSeq(reg[r], LAMBDA img : img.ImageDigest \notin Elems(ids))]

\* cleanupImages, lines 109-126: one deleteImages call, in the loop (i is
\* incremented) or after it (cleanupImages returns)
DeleteImages ==
  /\ pc = "delete"
  /\ nCalls' = nCalls + 1
  /\ LET ids == buildImageIdentifier(Chunk(deleteImageIDs, i)) IN
       \/ /\ deleteCalls' = Append(deleteCalls, [repo |-> repoName, ids |-> ids, ok |-> TRUE])
          /\ registry' = Delete(registry, repoName, ids)
          /\ IF InLoop(deleteImageIDs, i)
               THEN /\ i' = i + 1
                    /\ UNCHANGED <<pc, ret, ri, token, imageIDs>>
               ELSE /\ ReturnNil
                    /\ UNCHANGED i
          /\ UNCHANGED failed
       \/ /\ deleteCalls' = Append(deleteCalls, [repo |-> repoName, ids |-> ids, ok |-> FALSE])
          /\ failed' = TRUE
          /\ ret' = "error"
          /\ Abort
          /\ UNCHANGED <<registry, i>>
  /\ UNCHANGED <<flags, tagFilter, repos, repoName, images, locals, deleteImageIDs>>

Next ==
  \/ Start
  \/ GetAllRepoNames
  \/ GetImages
  \/ CleanupImages
  \/ DeleteImages

Spec == Init /\ [][Next]_vars

(***************************************************************************)
(* Properties.                                                             *)
(***************************************************************************)
Untagged(img) == Len(img.ImageTags) = 0
HasMatchingTag(img) ==
  \E j \in 1..Len(img.ImageTags) : MatchString(tagFilter.regExp, img.ImageTags[j])
NoMatchingTag(img) == ~HasMatchingTag(img)

\* cleanupImages has been called at least once: images, locals and
\* deleteImageIDs are those of its latest call
Planned == ret # "none"

Retained == Elems(locals.candidates) \ Elems(locals.imagesWithTagToRemove)

\* the delete calls issued for the repository of the latest cleanupImages call
CallsOfRepo == SelectSeq(deleteCalls, LAMBDA c : c.repo = repoName)

RECURSIVE Flatten(_)
Flatten(cs) == IF cs = <<>> THEN <<>> ELSE Head(cs).ids \o Flatten(Tail(cs))

CeilDiv(m, d) == (m + d - 1) \div d

RECURSIVE InsertBySecond(_, _)
\* x put into the list s (ascending by whole second) behind every element
\* whose whole second is not larger
InsertBySecond(s, x) ==
  IF s = <<>>
    THEN <<x>>
    ELSE IF Unix(x.ImagePushedAt) < Unix(Head(s).ImagePushedAt)
           THEN <<x>> \o s
           ELSE <<Head(s)>> \o InsertBySecond(Tail(s), x)

RECURSIVE StableBySecond(_)
\* the stable ascending order of s by whole second
StableBySecond(s) ==
  IF s = <<>>
    THEN <<>>
    ELSE InsertBySecond(StableBySecond(SubSeq(s, 1, Len(s) - 1)), s[Len(s)])

Seconds(s) == [k \in 1..Len(s) |-> Unix(s[k].ImagePushedAt)]

\* C1: with at most keep candidates the selection is empty; with keep + k
\* candidates (k > 0) the selection has exactly k of them and every selected
\* image was pushed no later than every retained candidate.
C1_RetentionSelector ==
  Planned =>
    LET cand == locals.candidates
        sel == locals.imagesWithTagToRemove
    IN  IF Len(cand) <= flags.keep
          THEN sel = <<>>
          ELSE /\ Len(sel) = Len(cand) - flags.keep
               /\ Cardinality(Elems(sel)) = Len(sel)
               /\ Elems(sel) \subseteq Elems(cand)
               /\ \A x \in Elems(sel) : \A y \in Retained :
                    TimeLE(x.ImagePushedAt, y.ImagePushedAt)

\* C2: a cleanupImages call that deletes and returns success has issued
\* ceil(M/100) delete calls for its plan of M images, the last of them with
\* M mod 100 images (100 when M is a positive multiple of 100), and none
\* with zero images.
C2_BatchCount ==
  (ret = "nil" /\ ~flags.dryRun) =>
    LET m == Len(deleteImageIDs)
        cs == CallsOfRepo
    IN  /\ Len(cs) = CeilDiv(m, ChunkSize)
        /\ \A k \in 1..Len(cs) : Len(cs[k].ids) > 0
        /\ m > 0 =>
             Len(cs[Len(cs)].ids) = IF m % ChunkSize = 0 THEN ChunkSize ELSE m % ChunkSize

\* C3: a pattern that does not compile, or an action other than delete and
\* save, ends the run at startup with no registry call; a run that has
\* issued a registry call has the action delete or save.
C3_StartupValidation ==
  /\ (~Compile(flags.tagRE) \/ ToLower(flags.postFilter) \notin {sDelete, sSave}) =>
       (nCalls = 0 /\ pc \in {"start", "fatal"})
  /\ nCalls > 0 => tagFilter.action \in {sDelete, sSave}

\* C4: for a non-empty pattern, matched is the sub-list of the tagged images
\* with at least one matching tag and unmatched the sub-list of those with
\* none, both in input order.
C4_TagFilterPartition ==
  (Planned /\ tagFilter.regExp # "") =>
    /\ locals.imagesWithRETag = SelectSeq(locals.tagged, HasMatchingTag)
    /\ locals.imagesWoRETag = SelectSeq(locals.tagged, NoMatchingTag)

C4_Witness ==
  /\ Planned
  /\ tagFilter.regExp # ""
  /\ Len(locals.imagesWithRETag) > 0
  /\ Len(locals.imagesWoRETag) > 0
  /\ \E k \in 1..Len(locals.imagesWithRETag) :
       ~MatchString(tagFilter.regExp, locals.imagesWithRETag[k].ImageTags[1])

\* C5: with action save no image of matched is in the deletion plan (with
\* the empty pattern, no tagged image at all); with action delete no image
\* of unmatched is in the deletion plan.
C5_PostFilterExempts ==
  Planned =>
    /\ tagFilter.action = sSave =>
         /\ Elems(locals.imagesWithRETag) \cap Elems(deleteImageIDs) = {}
         /\ tagFilter.regExp = "" =>
              Elems(locals.tagged) \cap Elems(deleteImageIDs) = {}
    /\ tagFilter.action = sDelete =>
         Elems(locals.imagesWoRETag) \cap Elems(deleteImageIDs) = {}

C5_Witness ==
  /\ Planned
  /\ tagFilter.action = sSave
  /\ tagFilter.regExp # ""
  /\ flags.keep = 0
  /\ Len(locals.imagesWithRETag) > 0
  /\ Len(locals.imagesWithTagToRemove) > 0

\* C6: in a dry run no delete call is ever issued and cleanupImages never
\* returns an error.
C6_DryRunDeletesNothing ==
  flags.dryRun =>
    /\ deleteCalls = <<>>
    /\ ret \in {"none", "nil"}
    /\ pc # "delete"

C6_Witness ==
  /\ flags.dryRun
  /\ pc = "done"
  /\ ret = "nil"
  /\ Len(deleteImageIDs) > 0
  /\ deleteCalls = <<>>

\* every digest of a successful delete call is gone from its repository
DeletedStayDeleted ==
  \A k \in 1..Len(deleteCalls) :
    deleteCalls[k].ok =>
      Elems(deleteCalls[k].ids) \cap DigestSet(registry[deleteCalls[k].repo]) = {}

\* C7: the step in which a registry call fails ends the run in the error
\* state; after it no registry call is issued; and in every step the digests
\* of the successful delete calls stay out of the registry.
C7_FatalOrdering ==
  [][ /\ failed' => pc' = "fatal"
      /\ failed => (nCalls' = nCalls /\ deleteCalls' = deleteCalls /\ registry' = registry)
      /\ (~failed /\ failed') => registry' = registry
      /\ DeletedStayDeleted' ]_vars

C7_Witness ==
  /\ failed
  /\ pc = "fatal"
  /\ \E k \in 1..Len(deleteCalls) : deleteCalls[k].ok /\ Len(deleteCalls[k].ids) > 0
  /\ DeletedStayDeleted

\* C8: the deletion plan starts with all untagged images of the fetched
\* list, in input order, and everything behind them is tagged.
C8_UntaggedAlwaysFirst ==
  Planned =>
    LET u == SelectSeq(images, Untagged) IN
      /\ Len(deleteImageIDs) >= Len(u)
      /\ SubSeq(deleteImageIDs, 1, Len(u)) = u
      /\ \A k \in (Len(u) + 1)..Len(deleteImageIDs) : ~Untagged(deleteImageIDs[k])

C8_Witness ==
  /\ Planned
  /\ flags.keep > 0
  /\ Len(locals.imagesNoTag) >= 1
  /\ Len(locals.imagesWithTagToRemove) >= 1
  /\ Retained # {}
  /\ ~Untagged(images[1])

IsPrefix(s, t) == Len(s) <= Len(t) /\ s = SubSeq(t, 1, Len(s))

\* C10: every delete call carries at most 100 digests; the digests of the
\* calls of one cleanupImages call, in issue order, are at every moment a
\* prefix of its plan's digests, and the whole of them once it has returned
\* success with dry-run off; the plan holds only images of the fetched list.
C10_ChunksCoverPlan ==
  Planned =>
    /\ \A k \in 1..Len(deleteCalls) : Len(deleteCalls[k].ids) <= ChunkSize
    /\ IsPrefix(Flatten(CallsOfRepo), Digests(deleteImageIDs))
    /\ Cardinality(DigestSet(deleteImageIDs)) = Len(deleteImageIDs)
    /\ Elems(deleteImageIDs) \subseteq Elems(images)
    /\ (ret = "nil" /\ ~flags.dryRun) => Flatten(CallsOfRepo) = Digests(deleteImageIDs)

C10_Witness ==
  /\ ret = "nil"
  /\ ~flags.dryRun
  /\ pc = "done"
  /\ Len(deleteImageIDs) > ChunkSize
  /\ Len(CallsOfRepo) >= 2
  /\ Flatten(CallsOfRepo) = Digests(deleteImageIDs)

====
